---- MODULE Spec2Model ----
(***************************************************************************)
(* Model of backend/routes/stock_routes.py: the ticker search route, the  *)
(* stock-detail aggregation (get_stock_details and its route) and the     *)
(* risk endpoint.  One request is handled at a time; the collaborators    *)
(* (FMP search/news provider, yfinance, sentiment, risk, prediction) are  *)
(* the environment and answer nondeterministically from bounded sets.     *)
(*                                                                         *)
(* Python values: a dict is a function whose DOMAIN is its key set, None  *)
(* is the record None, a value whose type the code inspects is tagged     *)
(* with its type, an exception is a record of its class and message.      *)
(***************************************************************************)
EXTENDS Integers, Sequences, FiniteSets, TLC

VARIABLES
    FMP_API_KEY,     \* module constant read from the environment at import
    route,           \* which handler serves the current request
    pc,              \* position of the handler
    query,           \* search: the raw `name` argument (a sequence of characters)
    search_out,      \* search: what the search provider did
    search_results,  \* search: what search_stocks returned / raised
    symbol,          \* details / risk: the <symbol> path argument
    stock_details,   \* get_stock_details: the record under construction / returned
    raised,          \* get_stock_details: the exception that left it (NoExc if none)
    yf_out,          \* what the market-data provider did in step 1
    news_out,        \* what the news provider did in step 2
    sentiment_out,   \* what the sentiment collaborator did in step 3
    risk_out,        \* what the risk collaborator did in step 4
    prediction_out,  \* what the prediction collaborator did in step 5
    calls,           \* outbound calls issued while serving the request
    response         \* the HTTP response: [status, body]

vars == <<FMP_API_KEY, route, pc, query, search_out, search_results, symbol, stock_details, raised, yf_out,
          news_out, sentiment_out, risk_out, prediction_out, calls, response>>

----------------------------------------------------------------------------
(* Bounds of the environment.                                              *)

\* most articles the news provider answers with (the code keeps 5)
MaxProviderItems == 6
\* most news items the sentiment collaborator answers with
MaxSentimentItems == 6

(* Program constants.                                                      *)
NewsLimit == 5
DefaultConfidence == 70

----------------------------------------------------------------------------
(* Python values.                                                          *)

None == [none |-> TRUE]
EmptyDict == [k \in {} |-> None]

\* dict.get(key, default)
Get(d, k, default) == IF k \in DOMAIN d THEN d[k] ELSE default

\* dict.update(new): keys of new win
Update(d, new) == new @@ d

\* values whose type or truthiness the code inspects
PyNone == [type |-> "NoneType"]
PyDict(d) == [type |-> "dict", d |-> d]
PyList(s) == [type |-> "list", items |-> s]
PyStr(s) == [type |-> "str", s |-> s]

IsDict(v) == v.type = "dict"
IsList(v) == v.type = "list"

\* bool(v)
Truthy(v) ==
    CASE v.type = "NoneType" -> FALSE
      [] v.type = "dict" -> DOMAIN v.d # {}
      [] v.type = "list" -> v.items # <<>>
      [] v.type = "str" -> v.s # ""

\* exceptions: class and message
NoExc == [cls |-> "none", msg |-> ""]
Exc(cls, msg) == [cls |-> cls, msg |-> msg]

\* the classes an exception of class cls is an instance of
Bases(cls) ==
    CASE cls = "Timeout" -> {"Timeout", "RequestException", "Exception"}
      [] cls = "ConnectionError" -> {"ConnectionError", "RequestException", "Exception"}
      [] cls = "JSONDecodeError" -> {"JSONDecodeError", "RequestException", "ValueError", "Exception"}
      [] cls = "NameError" -> {"NameError", "Exception"}
      [] cls = "TypeError" -> {"TypeError", "Exception"}
      [] cls = "RuntimeError" -> {"RuntimeError", "Exception"}
      [] OTHER -> {cls}

IsInstance(e, cls) == cls \in Bases(e.cls)

\* str.strip() on a sequence of characters
Whitespace == {" ", "\t", "\n"}

RECURSIVE LStrip(_)
LStrip(s) ==
    IF s # <<>> /\ Head(s) \in Whitespace THEN LStrip(Tail(s)) ELSE s

RECURSIVE RStrip(_)
RStrip(s) ==
    IF s # <<>> /\ s[Len(s)] \in Whitespace
    THEN RStrip(SubSeq(s, 1, Len(s) - 1))
    ELSE s

\* variant: the argument is used as sent
Strip_None(s) == s

Strip(s) == RStrip(LStrip(s))

\* a collaborator that was not called
NotRun == [kind |-> "notrun"]

\* an HTTP response of a route
Http(status, body) == [status |-> status, body |-> body]
NoResponse == [status |-> 0, body |-> None]

----------------------------------------------------------------------------
(* Ticker search.                                                          *)

\* what the search provider may do with a request
SearchMatches == <<[symbol |-> "TCS.NS", name |-> "Tata Consultancy"],
                   [symbol |-> "TCS.BO", name |-> "Tata Consultancy"]>>

SearchProviderOutcomes ==
    {[kind |-> "raise", exc |-> Exc("Timeout", "timed out")],
     [kind |-> "raise", exc |-> Exc("ConnectionError", "connection refused")],
     [kind |-> "raise", exc |-> Exc("RuntimeError", "unexpected")]}
    \cup {[kind |-> "status", code |-> c, json |-> [ok |-> TRUE, data |-> PyNone]] :
            c \in {401, 429, 404, 500}}
    \cup {[kind |-> "status", code |-> 200, json |-> j] :
            j \in {[ok |-> TRUE, data |-> PyList(SearchMatches)],
                   [ok |-> TRUE, data |-> PyList(<<>>)],
                   [ok |-> TRUE, data |-> PyNone],
                   [ok |-> TRUE, data |-> PyDict([error |-> "Limit Reach"])],
                   [ok |-> FALSE, data |-> PyNone]}}

SearchError(msg) == PyDict([error |-> msg])

\* search_stocks: the try body from the provider's answer on
SearchBody(out) ==
    IF out.kind = "raise" THEN [exc |-> out.exc, value |-> PyNone]
    ELSE IF out.code = 401
    THEN [exc |-> NoExc, value |-> SearchError("API authentication failed. Check your API key.")]
    ELSE IF out.code = 429
    THEN [exc |-> NoExc, value |-> SearchError("API rate limit exceeded. Try again later.")]
    ELSE IF out.code # 200
    THEN [exc |-> NoExc,
          value |-> SearchError("API request failed with status code " \o ToString(out.code))]
    ELSE IF ~out.json.ok
    THEN [exc |-> Exc("JSONDecodeError", "invalid json"), value |-> PyNone]
    ELSE [exc |-> NoExc,
          value |-> IF Truthy(out.json.data) THEN out.json.data ELSE PyList(<<>>)]

\* search_stocks(query): the value returned, the exception raised, the calls made
search_stocks(q, key, out) ==
    IF key = ""
    THEN [value |-> SearchError("API key not configured"), exc |-> NoExc, calls |-> <<>>]
    ELSE LET r == SearchBody(out)
             v == IF r.exc = NoExc THEN r.value
                  ELSE IF IsInstance(r.exc, "Timeout")
                  THEN SearchError("API request timed out. Try again later.")
                  ELSE IF IsInstance(r.exc, "RequestException")
                  THEN SearchError("API request error. Please try again.")
                  ELSE IF IsInstance(r.exc, "Exception")
                  THEN SearchError("An unexpected error occurred")
                  ELSE PyNone
             e == IF r.exc # NoExc /\ ~IsInstance(r.exc, "Exception") THEN r.exc ELSE NoExc
         IN [value |-> v, exc |-> e, calls |-> <<"requests.get:search-ticker">>]

\* variant: provider errors are softened to HTTP 200
SearchRouteResponse_Soft(r) ==
    IF r.exc # NoExc
    THEN Http(500, PyDict([error |-> "An unexpected error occurred"]))
    ELSE Http(200, r.value)

\* search_stocks_route from the stripped query on
SearchRouteResponse(r) ==
    IF r.exc # NoExc
    THEN Http(500, PyDict([error |-> "An unexpected error occurred"]))
    ELSE IF IsDict(r.value) /\ "error" \in DOMAIN r.value.d
    THEN Http(500, r.value)
    ELSE Http(200, r.value)

\* the raw `name` arguments tried; request.args.get('name', '') of a missing one is ''
Queries == {<<>>, <<" ">>, <<" ", "\t">>, <<"T", "C", "S">>, <<" ", "T", "C", "S", " ">>}

SearchRoute ==
    /\ pc = "idle"
    /\ \E raw \in Queries, out \in SearchProviderOutcomes :
         LET q == Strip(raw)
             r == search_stocks(q, FMP_API_KEY, out)
         IN /\ query' = raw
            /\ IF q = <<>>
               THEN /\ response' = Http(400, PyDict([error |-> "Please provide a valid stock name or symbol"]))
                    /\ calls' = <<>>
                    /\ search_out' = NotRun
                    /\ search_results' = NotRun
               ELSE /\ response' = SearchRouteResponse(r)
                    /\ calls' = r.calls
                    /\ search_out' = IF r.calls = <<>> THEN NotRun ELSE out
                    /\ search_results' = [kind |-> "ran", value |-> r.value, exc |-> r.exc]
    /\ route' = "search"
    /\ pc' = "done"
    /\ UNCHANGED <<FMP_API_KEY, symbol, stock_details, raised, yf_out, news_out,
                   sentiment_out, risk_out, prediction_out>>

----------------------------------------------------------------------------
(* Stock detail aggregation: get_stock_details.                            *)

Symbols == {"TCS.NS", "INFY.NS"}

\* the result of a block of code: the record as it leaves it, the exception raised
Ok(details) == [details |-> details, exc |-> NoExc]
Raise(details, e) == [details |-> details, exc |-> e]

\* the default response structure
DefaultQuote == [price |-> 0, change |-> 0, change_percent |-> 0]

DefaultProfile(sym) ==
    [name |-> sym, symbol |-> sym, industry |-> "N/A", sector |-> "N/A",
     country |-> "N/A", website |-> "#"]

InitialDetails(sym) ==
    [current_quote |-> DefaultQuote,
     profile |-> DefaultProfile(sym),
     historical_prices |-> <<>>,
     news |-> <<>>,
     sentiment |-> None,
     risk_analysis |-> None,
     price_prediction |-> None]

(* Step 1: market data (yfinance).                                         *)

\* stock.info answers
Infos ==
    {EmptyDict,
     [longName |-> "Tata Consultancy Services", industry |-> "IT Services"]}

\* stock.history(period='1d') answers: the Close column (prices in paise)
DaySeries == {<<>>, <<400000, 410000>>}

\* stock.history(period='1y') answers: rows of (index date, Close)
YearSeries ==
    {<<>>,
     <<[idx |-> [year |-> 2024, month |-> 3, day |-> 7], Close |-> 390000],
       [idx |-> [year |-> 2024, month |-> 11, day |-> 18], Close |-> 410000]>>}

\* where step 1 raises: at the profile lookup, at either history call, or nowhere
YfOutcomes ==
    {[fail |-> "ticker", info |-> EmptyDict, day |-> <<>>, year |-> <<>>]}
    \cup {[fail |-> "history_1d", info |-> i, day |-> <<>>, year |-> <<>>] : i \in Infos}
    \cup {[fail |-> "history_1y", info |-> i, day |-> d, year |-> <<>>] :
            i \in Infos, d \in DaySeries}
    \cup {[fail |-> "none", info |-> i, day |-> d, year |-> y] :
            i \in Infos, d \in DaySeries, y \in YearSeries}

YfError == Exc("RuntimeError", "yfinance request failed")

\* the profile update from stock.info
ProfileFromInfo(details, sym, info) ==
    IF info # EmptyDict
    THEN [details EXCEPT !.profile =
            Update(@, [name |-> Get(info, "longName", sym),
                       industry |-> Get(info, "industry", "N/A"),
                       sector |-> Get(info, "sector", "N/A"),
                       country |-> Get(info, "country", "N/A"),
                       website |-> Get(info, "website", "#")])]
    ELSE details

\* the quote from the 1-day Close column: last against first sample.
\* The series of DaySeries divide exactly, so \div is the code's float division.
QuoteFromDay(details, day) ==
    IF day # <<>>
    THEN LET close_price == day[Len(day)]
             previous_close == day[1]
             change == close_price - previous_close
             change_percent == (change * 100) \div previous_close
         IN [details EXCEPT !.current_quote =
               [price |-> close_price, change |-> change,
                change_percent |-> change_percent]]
    ELSE details

Pad2(n) == IF n < 10 THEN "0" \o ToString(n) ELSE ToString(n)

\* idx.strftime('%Y-%m-%d')
StrfDate(idx) == ToString(idx.year) \o "-" \o Pad2(idx.month) \o "-" \o Pad2(idx.day)

HistoryFromYear(details, year) ==
    IF year # <<>>
    THEN [details EXCEPT !.historical_prices =
            [i \in 1..Len(year) |->
               [date |-> StrfDate(year[i].idx), close |-> year[i].Close]]]
    ELSE details

\* the try body of step 1: each statement runs if none before it raised
MarketBody(details, sym, out) ==
    IF out.fail = "ticker" THEN Raise(details, YfError)
    ELSE LET d1 == ProfileFromInfo(details, sym, out.info)
         IN IF out.fail = "history_1d" THEN Raise(d1, YfError)
            ELSE LET d2 == QuoteFromDay(d1, out.day)
                 IN IF out.fail = "history_1y" THEN Raise(d2, YfError)
                    ELSE Ok(HistoryFromYear(d2, out.year))

\* variant: step 1 has no guard of its own
MarketFetch_NoGuard(details, sym, out) == MarketBody(details, sym, out)

\* except Exception: log and continue with what the record holds
MarketFetch(details, sym, out) ==
    LET r == MarketBody(details, sym, out)
    IN IF r.exc # NoExc /\ IsInstance(r.exc, "Exception") THEN Ok(r.details) ELSE r

(* Step 2: news (Financial Modeling Prep).                                 *)

\* the i-th article of the provider's answer; even ones lack site and date
Article(i) ==
    IF i % 2 = 1
    THEN [title |-> "article " \o ToString(i), site |-> "fmp",
          url |-> "https://news/" \o ToString(i), publishedDate |-> "2024-11-18"]
    ELSE [title |-> "article " \o ToString(i), url |-> "https://news/" \o ToString(i)]

ProviderArticles(n) == [i \in 1..n |-> Article(i)]

NewsOutcomes ==
    {[kind |-> "raise", exc |-> Exc("Timeout", "timed out")],
     [kind |-> "raise", exc |-> Exc("ConnectionError", "connection refused")],
     [kind |-> "status", code |-> 401, json |-> [ok |-> TRUE, data |-> PyNone]],
     [kind |-> "status", code |-> 500, json |-> [ok |-> TRUE, data |-> PyNone]],
     [kind |-> "status", code |-> 200, json |-> [ok |-> FALSE, data |-> PyNone]],
     [kind |-> "status", code |-> 200,
      json |-> [ok |-> TRUE, data |-> PyDict([message |-> "Limit Reach"])]]}
    \cup {[kind |-> "status", code |-> 200,
           json |-> [ok |-> TRUE, data |-> PyList(ProviderArticles(n))]] :
            n \in 0..MaxProviderItems}

NewsSkipped == [kind |-> "skipped"]

\* one article of the provider as a NewsItem
NewsItem(article) ==
    [title |-> Get(article, "title", ""),
     publisher |-> Get(article, "site", ""),
     link |-> Get(article, "url", ""),
     published_at |-> Get(article, "publishedDate", "")]

Min(a, b) == IF a < b THEN a ELSE b

\* variant: the slice is missing
NewsItems_NoCap(articles) ==
    [i \in 1..Len(articles) |-> NewsItem(articles[i])]

\* news_data[:5] as NewsItems, in the provider's order
NewsItems(articles) ==
    [i \in 1..Min(NewsLimit, Len(articles)) |-> NewsItem(articles[i])]

\* the try body of step 2
NewsBody(details, key, out) ==
    IF key = "" THEN Ok(details)
    ELSE IF out.kind = "raise" THEN Raise(details, out.exc)
    ELSE IF out.code = 401 THEN Ok(details)
    ELSE IF out.code # 200 THEN Ok(details)
    ELSE IF ~out.json.ok THEN Raise(details, Exc("JSONDecodeError", "invalid json"))
    ELSE IF Truthy(out.json.data) /\ IsList(out.json.data)
    THEN Ok([details EXCEPT !.news = NewsItems(out.json.data.items)])
    ELSE Ok(details)

\* except Timeout / RequestException / Exception: log only
NewsFetch(details, key, out) ==
    LET r == NewsBody(details, key, out)
    IN IF r.exc # NoExc /\ IsInstance(r.exc, "Exception") THEN Ok(r.details) ELSE r

(* Step 3: sentiment.                                                      *)

\* the i-th news item of the sentiment collaborator
SentimentItem(i) ==
    [title |-> "headline " \o ToString(i), publisher |-> "sentiment",
     link |-> "https://sentiment/" \o ToString(i), published_at |-> "2024-11-18",
     sentiment |-> "positive"]

SentimentItems(n) == [i \in 1..n |-> SentimentItem(i)]

\* what fetch_and_analyze_stock_sentiment may do
SentimentOutcomes ==
    {[kind |-> "raise", exc |-> Exc("RuntimeError", "sentiment model failed")],
     [kind |-> "raise", exc |-> Exc("NameError", "name is not defined")],
     [kind |-> "return", value |-> PyNone],
     [kind |-> "return", value |-> PyStr("unavailable")],
     [kind |-> "return", value |-> PyDict(EmptyDict)],
     [kind |-> "return", value |-> PyDict([overall_prediction |-> "Negative"])],
     [kind |-> "return", value |-> PyDict([news |-> SentimentItems(1)])]}
    \cup {[kind |-> "return",
           value |-> PyDict([news |-> SentimentItems(n), overall_prediction |-> "Positive"])] :
            n \in 0..MaxSentimentItems}

NeutralSentiment == [overall_prediction |-> "Neutral"]

\* variant: the sentiment news is put in front of the existing news
SentimentBody_Merge(details, out) ==
    IF out.kind = "raise" THEN Raise(details, out.exc)
    ELSE LET sentiment_data == out.value
         IN IF Truthy(sentiment_data) /\ IsDict(sentiment_data)
            THEN LET sentiment_news == Get(sentiment_data.d, "news", <<>>)
                 IN Ok([details EXCEPT
                          !.news = sentiment_news \o @,
                          !.sentiment =
                             [overall_prediction |->
                                Get(sentiment_data.d, "overall_prediction", "Neutral")]])
            ELSE Ok(details)

\* the try body of step 3
SentimentBody(details, out) ==
    IF out.kind = "raise" THEN Raise(details, out.exc)
    ELSE LET sentiment_data == out.value
         IN IF Truthy(sentiment_data) /\ IsDict(sentiment_data)
            THEN LET sentiment_news == Get(sentiment_data.d, "news", <<>>)
                     d1 == IF sentiment_news # <<>>
                           THEN [details EXCEPT !.news = sentiment_news]
                           ELSE details
                 IN Ok([d1 EXCEPT !.sentiment =
                          [overall_prediction |->
                             Get(sentiment_data.d, "overall_prediction", "Neutral")]])
            ELSE Ok(details)

\* except NameError: log only; except Exception: sentiment becomes Neutral
SentimentFetch(details, out) ==
    LET r == SentimentBody(details, out)
    IN IF r.exc = NoExc THEN r
       ELSE IF IsInstance(r.exc, "NameError") THEN Ok(r.details)
       ELSE IF IsInstance(r.exc, "Exception")
       THEN Ok([r.details EXCEPT !.sentiment = NeutralSentiment])
       ELSE r

(* Step 4: risk, and the risk endpoint it falls back to.                   *)

NaRisk ==
    [risk_level |-> "N/A", volatility |-> "N/A", daily_return |-> "N/A",
     current_price |-> "N/A", trend |-> "N/A", latest_close |-> None]

\* a number in a field that may also hold None
Num(n) == [value |-> n]

FullRiskResult ==
    [risk_level |-> "Medium", volatility |-> "1.8%", daily_return |-> "0.4%",
     current_price |-> "4100.00", trend |-> "Upward", latest_close |-> Num(410000)]

\* what fetch_risk_results may do, NameError apart
RiskAnswers ==
    {[kind |-> "raise", exc |-> Exc("RuntimeError", "risk computation failed")],
     [kind |-> "return", value |-> PyNone],
     [kind |-> "return", value |-> PyDict([error |-> "No data found"])],
     [kind |-> "return", value |-> PyDict(FullRiskResult)],
     [kind |-> "return", value |-> PyDict([risk_level |-> "Low"])]}

RiskNameError == [kind |-> "raise", exc |-> Exc("NameError", "name is not defined")]

\* the RiskAnalysis record of a result without error
RiskFromResults(results) ==
    [risk_level |-> Get(results, "risk_level", "N/A"),
     volatility |-> Get(results, "volatility", "N/A"),
     daily_return |-> Get(results, "daily_return", "N/A"),
     current_price |-> Get(results, "current_price", "N/A"),
     trend |-> Get(results, "trend", "N/A"),
     latest_close |-> Get(results, "latest_close", None)]

\* `'error' in results`: a TypeError unless results is a container
InError(out) ==
    IF out.kind = "raise" THEN out.exc
    ELSE IF ~IsDict(out.value) THEN Exc("TypeError", "argument is not iterable")
    ELSE NoExc

\* variant: an exception of the collaborator is answered with HTTP 500
analyze_stock_risk_500(sym, out) ==
    IF sym = "" THEN Http(400, [error |-> "Symbol is required"])
    ELSE LET e == InError(out)
         IN IF e # NoExc
            THEN Http(500, [error |-> "Failed to analyze stock risk: " \o e.msg])
            ELSE IF "error" \in DOMAIN out.value.d
            THEN Http(200, [risk_analysis |-> Update(NaRisk, [error |-> out.value.d.error])])
            ELSE Http(200, [risk_analysis |-> RiskFromResults(out.value.d)])

\* analyze_stock_risk(symbol): the response of the risk endpoint
analyze_stock_risk(sym, out) ==
    IF sym = "" THEN Http(400, [error |-> "Symbol is required"])
    ELSE LET e == InError(out)
         IN IF e # NoExc
            THEN IF IsInstance(e, "Exception")
                 THEN Http(200, [risk_analysis |->
                        Update(NaRisk, [error |-> "Failed to analyze stock risk: " \o e.msg])])
                 ELSE Http(500, [error |-> "Internal Server Error"])
            ELSE IF "error" \in DOMAIN out.value.d
            THEN Http(200, [risk_analysis |-> Update(NaRisk, [error |-> out.value.d.error])])
            ELSE Http(200, [risk_analysis |-> RiskFromResults(out.value.d)])

\* the self call GET {host}/risk/analyze/{symbol}: it fails in transport, a proxy
\* answers for the endpoint, or the endpoint serves it with a fresh risk fetch
SelfCallOutcomes ==
    {[kind |-> "raise", exc |-> Exc("Timeout", "timed out")],
     [kind |-> "status", code |-> 502]}
    \cup {[kind |-> "served", inner |-> a] : a \in RiskAnswers \cup {RiskNameError}}

NoSelfCall == [kind |-> "notrun"]

\* step 4 asks fetch_risk_results, and the endpoint only after a NameError
RiskOutcomes ==
    {[direct |-> a, self |-> NoSelfCall] : a \in RiskAnswers}
    \cup {[direct |-> RiskNameError, self |-> s] : s \in SelfCallOutcomes}

\* variant: the error of the result is attached, as the risk endpoint does
RiskDirect_KeepError(details, out) ==
    LET e == InError(out.direct)
    IN IF e # NoExc THEN Raise(details, e)
       ELSE IF "error" \notin DOMAIN out.direct.value.d
       THEN Ok([details EXCEPT !.risk_analysis = RiskFromResults(out.direct.value.d)])
       ELSE Ok([details EXCEPT !.risk_analysis =
                  Update(NaRisk, [error |-> out.direct.value.d.error])])

\* the inner try body: fetch_risk_results called directly
RiskDirect(details, out) ==
    LET e == InError(out.direct)
    IN IF e # NoExc THEN Raise(details, e)
       ELSE IF "error" \notin DOMAIN out.direct.value.d
       THEN Ok([details EXCEPT !.risk_analysis = RiskFromResults(out.direct.value.d)])
       ELSE Ok([details EXCEPT !.risk_analysis = NaRisk])

\* except NameError: the internal API call
RiskViaApi(details, sym, out) ==
    IF out.self.kind = "raise" THEN Raise(details, out.self.exc)
    ELSE LET risk_response == IF out.self.kind = "served"
                              THEN analyze_stock_risk(sym, out.self.inner)
                              ELSE Http(out.self.code, EmptyDict)
         IN IF risk_response.status < 400
            THEN Ok([details EXCEPT !.risk_analysis =
                       Get(risk_response.body, "risk_analysis", None)])
            ELSE Ok([details EXCEPT !.risk_analysis = NaRisk])

\* variant: the except clause only logs
RiskFetch_NoDefault(details, sym, out) ==
    LET r0 == RiskDirect(details, out)
        r == IF r0.exc # NoExc /\ IsInstance(r0.exc, "NameError")
             THEN RiskViaApi(r0.details, sym, out)
             ELSE r0
    IN IF r.exc # NoExc /\ IsInstance(r.exc, "Exception") THEN Ok(r.details) ELSE r

\* the outer try of step 4: except Exception gives the all-N/A record
RiskFetch(details, sym, out) ==
    LET r0 == RiskDirect(details, out)
        r == IF r0.exc # NoExc /\ IsInstance(r0.exc, "NameError")
             THEN RiskViaApi(r0.details, sym, out)
             ELSE r0
    IN IF r.exc # NoExc /\ IsInstance(r.exc, "Exception")
       THEN Ok([r.details EXCEPT !.risk_analysis = NaRisk])
       ELSE r

\* the calls step 4 issued
RiskCalls(out) ==
    IF out.direct = RiskNameError
    THEN <<"fetch_risk_results", "requests.get:risk/analyze">>
    ELSE <<"fetch_risk_results">>

(* Step 5: price prediction.                                               *)

FullPrediction ==
    [predicted_price |-> Num(415000), last_close_price |-> Num(410000),
     price_change |-> Num(5000), prediction_confidence |-> Num(82),
     prediction_direction |-> [value |-> "up"]]

PredictionOutcomes ==
    {[kind |-> "raise", exc |-> Exc("RuntimeError", "model failed")],
     [kind |-> "return", value |-> PyNone],
     [kind |-> "return", value |-> PyDict([error |-> "Not enough data"])],
     [kind |-> "return", value |-> PyDict(FullPrediction)],
     [kind |-> "return", value |-> PyDict([predicted_price |-> Num(415000)])]}

PredictionFromResult(result) ==
    [predicted_price |-> Get(result, "predicted_price", None),
     last_close_price |-> Get(result, "last_close_price", None),
     price_change |-> Get(result, "price_change", None),
     prediction_confidence |-> Get(result, "prediction_confidence", Num(DefaultConfidence)),
     prediction_direction |-> Get(result, "prediction_direction", None)]

\* the try body of step 5
PredictionBody(details, out) ==
    LET e == InError(out)
    IN IF e # NoExc THEN Raise(details, e)
       ELSE IF "error" \notin DOMAIN out.value.d
       THEN Ok([details EXCEPT !.price_prediction = PredictionFromResult(out.value.d)])
       ELSE Ok([details EXCEPT !.price_prediction = None])

\* except Exception: the prediction becomes None
PredictionFetch(details, out) ==
    LET r == PredictionBody(details, out)
    IN IF r.exc # NoExc /\ IsInstance(r.exc, "Exception")
       THEN Ok([r.details EXCEPT !.price_prediction = None])
       ELSE r

(* The boundary of get_stock_details and its route.                        *)

\* the minimal record of the outermost except
TopLevelFallback(sym, e) ==
    [current_quote |-> DefaultQuote,
     profile |-> [name |-> sym, symbol |-> sym],
     historical_prices |-> <<>>,
     news |-> <<>>,
     error |-> "Failed to retrieve complete stock data: " \o e.msg]

\* variant: the outermost except names the transport errors only
TopLevelExcept_RequestOnly(r, sym) ==
    IF r.exc # NoExc /\ IsInstance(r.exc, "RequestException")
    THEN Ok(TopLevelFallback(sym, r.exc))
    ELSE r

\* the outermost try of get_stock_details around a step that ended as r
TopLevelExcept(r, sym) ==
    IF r.exc # NoExc /\ IsInstance(r.exc, "Exception")
    THEN Ok(TopLevelFallback(sym, r.exc))
    ELSE r

\* stock_details_route around get_stock_details ending as r
DetailsRouteResponse(r) ==
    IF r.exc = NoExc THEN Http(200, r.details)
    ELSE Http(500, [error |-> "An unexpected error occurred", details |-> r.exc.msg])

\* a step ended as r0: go on to pc `next`, or leave get_stock_details
Continue(r0, next) ==
    LET r == TopLevelExcept(r0, symbol)
        returns == r0.exc # NoExc \/ next = "done"
    IN /\ stock_details' = r.details
       /\ raised' = r.exc
       /\ pc' = IF returns THEN "done" ELSE next
       /\ response' = IF returns THEN DetailsRouteResponse(r) ELSE response

\* stock_details_route up to the default record of get_stock_details.  The
\* <symbol> segment of a matched URL is never empty, so Symbols holds no "".
DetailsRoute ==
    /\ pc = "idle"
    /\ \E sym \in Symbols :
         /\ symbol' = sym
         /\ IF sym = ""
            THEN /\ response' = Http(400, [error |-> "Symbol is required"])
                 /\ pc' = "done"
                 /\ UNCHANGED stock_details
            ELSE /\ stock_details' = InitialDetails(sym)
                 /\ pc' = "market"
                 /\ UNCHANGED response
    /\ route' = "details"
    /\ UNCHANGED <<FMP_API_KEY, query, search_out, search_results, raised, yf_out,
                   news_out, sentiment_out, risk_out, prediction_out, calls>>

MarketStep ==
    /\ route = "details" /\ pc = "market"
    /\ \E out \in YfOutcomes :
         /\ yf_out' = out
         /\ Continue(MarketFetch(stock_details, symbol, out), "news")
    /\ calls' = Append(calls, "yf.Ticker")
    /\ UNCHANGED <<FMP_API_KEY, route, query, search_out, search_results, symbol,
                   news_out, sentiment_out, risk_out, prediction_out>>

NewsStep ==
    /\ route = "details" /\ pc = "news"
    /\ \E out \in NewsOutcomes :
         /\ news_out' = IF FMP_API_KEY = "" THEN NewsSkipped ELSE out
         /\ Continue(NewsFetch(stock_details, FMP_API_KEY, out), "sentiment")
    /\ calls' = IF FMP_API_KEY = "" THEN calls
                ELSE Append(calls, "requests.get:stock_news")
    /\ UNCHANGED <<FMP_API_KEY, route, query, search_out, search_results, symbol,
                   yf_out, sentiment_out, risk_out, prediction_out>>

SentimentStep ==
    /\ route = "details" /\ pc = "sentiment"
    /\ \E out \in SentimentOutcomes :
         /\ sentiment_out' = out
         /\ Continue(SentimentFetch(stock_details, out), "risk")
    /\ calls' = Append(calls, "fetch_and_analyze_stock_sentiment")
    /\ UNCHANGED <<FMP_API_KEY, route, query, search_out, search_results, symbol,
                   yf_out, news_out, risk_out, prediction_out>>

RiskStep ==
    /\ route = "details" /\ pc = "risk"
    /\ \E out \in RiskOutcomes :
         /\ risk_out' = out
         /\ Continue(RiskFetch(stock_details, symbol, out), "prediction")
         /\ calls' = calls \o RiskCalls(out)
    /\ UNCHANGED <<FMP_API_KEY, route, query, search_out, search_results, symbol,
                   yf_out, news_out, sentiment_out, prediction_out>>

PredictionStep ==
    /\ route = "details" /\ pc = "prediction"
    /\ \E out \in PredictionOutcomes :
         /\ prediction_out' = out
         /\ Continue(PredictionFetch(stock_details, out), "done")
    /\ calls' = Append(calls, "stock_price_predictor")
    /\ UNCHANGED <<FMP_API_KEY, route, query, search_out, search_results, symbol,
                   yf_out, news_out, sentiment_out, risk_out>>

\* An exception raised inside an except clause of the running step: the clause
\* formats the exception it caught into its log line, and no inner guard covers
\* that.  It happens after the step's collaborator raised into such a clause.
HandlerError == Exc("TypeError", "__str__ returned non-string")

GuardRaises ==
    /\ route = "details"
    /\ \/ /\ pc = "market"
          /\ \E out \in {o \in YfOutcomes : o.fail # "none"} :
               /\ yf_out' = out
               /\ Continue(Raise(MarketBody(stock_details, symbol, out).details,
                                 HandlerError), pc)
          /\ calls' = Append(calls, "yf.Ticker")
          /\ UNCHANGED <<news_out, sentiment_out, risk_out, prediction_out>>
       \/ /\ pc = "news" /\ FMP_API_KEY # ""
          /\ \E out \in {o \in NewsOutcomes :
                           LET e == NewsBody(stock_details, FMP_API_KEY, o).exc
                           IN e # NoExc /\ ~IsInstance(e, "Timeout")} :
               /\ news_out' = out
               /\ Continue(Raise(stock_details, HandlerError), pc)
          /\ calls' = Append(calls, "requests.get:stock_news")
          /\ UNCHANGED <<yf_out, sentiment_out, risk_out, prediction_out>>
       \/ /\ pc = "sentiment"
          /\ \E out \in {o \in SentimentOutcomes :
                           o.kind = "raise" /\ ~IsInstance(o.exc, "NameError")} :
               /\ sentiment_out' = out
               /\ Continue(Raise(stock_details, HandlerError), pc)
          /\ calls' = Append(calls, "fetch_and_analyze_stock_sentiment")
          /\ UNCHANGED <<yf_out, news_out, risk_out, prediction_out>>
       \/ /\ pc = "risk"
          /\ \E out \in {o \in RiskOutcomes :
                           InError(o.direct) # NoExc /\ o.direct # RiskNameError} :
               /\ risk_out' = out
               /\ Continue(Raise(stock_details, HandlerError), pc)
               /\ calls' = calls \o RiskCalls(out)
          /\ UNCHANGED <<yf_out, news_out, sentiment_out, prediction_out>>
       \/ /\ pc = "prediction"
          /\ \E out \in {o \in PredictionOutcomes : InError(o) # NoExc} :
               /\ prediction_out' = out
               /\ Continue(Raise(stock_details, HandlerError), pc)
          /\ calls' = Append(calls, "stock_price_predictor")
          /\ UNCHANGED <<yf_out, news_out, sentiment_out, risk_out>>
    /\ UNCHANGED <<FMP_API_KEY, route, query, search_out, search_results, symbol>>

(* The risk endpoint as a route of its own.                                *)

RiskRoute ==
    /\ pc = "idle"
    /\ \E sym \in Symbols, out \in RiskAnswers \cup {RiskNameError} :
         /\ symbol' = sym
         /\ risk_out' = [direct |-> out, self |-> NoSelfCall]
         /\ response' = analyze_stock_risk(sym, out)
    /\ route' = "risk"
    /\ pc' = "done"
    /\ calls' = <<"fetch_risk_results">>
    /\ UNCHANGED <<FMP_API_KEY, query, search_out, search_results, stock_details,
                   raised, yf_out, news_out, sentiment_out, prediction_out>>

----------------------------------------------------------------------------
(* The server.                                                             *)

Init ==
    /\ FMP_API_KEY \in {"", "demo-key"}
    /\ route = "none"
    /\ pc = "idle"
    /\ query = <<>>
    /\ search_out = NotRun
    /\ search_results = NotRun
    /\ symbol = ""
    /\ stock_details = None
    /\ raised = NoExc
    /\ yf_out = NotRun
    /\ news_out = NotRun
    /\ sentiment_out = NotRun
    /\ risk_out = NotRun
    /\ prediction_out = NotRun
    /\ calls = <<>>
    /\ response = NoResponse

\* the response is sent; the next request finds nothing of this one
NextRequest ==
    /\ pc = "done"
    /\ route' = "none"
    /\ pc' = "idle"
    /\ query' = <<>>
    /\ search_out' = NotRun
    /\ search_results' = NotRun
    /\ symbol' = ""
    /\ stock_details' = None
    /\ raised' = NoExc
    /\ yf_out' = NotRun
    /\ news_out' = NotRun
    /\ sentiment_out' = NotRun
    /\ risk_out' = NotRun
    /\ prediction_out' = NotRun
    /\ calls' = <<>>
    /\ response' = NoResponse
    /\ UNCHANGED FMP_API_KEY

Next ==
    \/ SearchRoute
    \/ DetailsRoute
    \/ MarketStep
    \/ NewsStep
    \/ SentimentStep
    \/ RiskStep
    \/ PredictionStep
    \/ RiskRoute
    \/ NextRequest

Spec == Init /\ [][Next]_vars

\* the same server where, besides, a guard of get_stock_details may itself raise
NextUnexpected == Next \/ GuardRaises

SpecUnexpected == Init /\ [][NextUnexpected]_vars

----------------------------------------------------------------------------
(* Properties.                                                             *)

\* get_stock_details has returned (or raised) and its route has answered
DetailsDone == route = "details" /\ pc = "done"

StockDetailsKeys ==
    {"current_quote", "profile", "historical_prices", "news", "sentiment",
     "risk_analysis", "price_prediction"}

ProfileKeys == {"name", "symbol", "industry", "sector", "country", "website"}

FallbackKeys == {"current_quote", "profile", "historical_prices", "news", "error"}

\* the record is the one of the outermost except
OnFallback == "error" \in DOMAIN stock_details

(* C1 as stated: whatever the five sub-fetches do, get_stock_details does  *)
(* not raise and returns a non-null record carrying every StockDetails     *)
(* field, with the full profile, on the top-level fallback path as well.   *)
C1_AlwaysFullShape ==
    DetailsDone =>
        /\ raised = NoExc
        /\ stock_details # None
        /\ StockDetailsKeys \subseteq DOMAIN stock_details
        /\ ProfileKeys \subseteq DOMAIN stock_details.profile

(* C1 amended: get_stock_details does not raise and returns a non-null     *)
(* record at HTTP 200; on the normal path the record carries exactly the   *)
(* seven StockDetails fields with the six-field profile, on the top-level  *)
(* fallback path it carries only current_quote, profile (name and symbol), *)
(* historical_prices, news and error.                                      *)
C1_ShapeByPath ==
    DetailsDone =>
        /\ raised = NoExc
        /\ stock_details # None
        /\ response = Http(200, stock_details)
        /\ DOMAIN stock_details.current_quote = {"price", "change", "change_percent"}
        /\ IF OnFallback
           THEN /\ DOMAIN stock_details = FallbackKeys
                /\ DOMAIN stock_details.profile = {"name", "symbol"}
           ELSE /\ DOMAIN stock_details = StockDetailsKeys
                /\ DOMAIN stock_details.profile = ProfileKeys

\* the fallback record was returned after the risk collaborator raised
C1_Witness ==
    /\ DetailsDone
    /\ OnFallback
    /\ risk_out # NotRun
    /\ prediction_out = NotRun

\* every upstream call of the request raised
AllUpstreamRaised ==
    /\ yf_out # NotRun /\ yf_out.fail # "none"
    /\ news_out # NotRun /\ news_out.kind = "raise"
    /\ sentiment_out # NotRun /\ sentiment_out.kind = "raise"
    /\ risk_out # NotRun /\ risk_out.direct.kind = "raise"
    /\ risk_out.direct = RiskNameError =>
         \/ risk_out.self.kind = "raise"
         \/ risk_out.self.kind = "served" /\ risk_out.self.inner.kind = "raise"
    /\ prediction_out # NotRun /\ prediction_out.kind = "raise"

RiskLevelIsNa ==
    /\ "risk_analysis" \in DOMAIN stock_details
    /\ stock_details.risk_analysis # None
    /\ stock_details.risk_analysis.risk_level = "N/A"

PredictionIsNull ==
    /\ "price_prediction" \in DOMAIN stock_details
    /\ stock_details.price_prediction = None

SentimentHasNews ==
    /\ sentiment_out # NotRun
    /\ sentiment_out.kind = "return"
    /\ IsDict(sentiment_out.value)
    /\ "news" \in DOMAIN sentiment_out.value.d
    /\ sentiment_out.value.d.news # <<>>

\* the news provider answered 200 with a list of articles
ProviderListed ==
    /\ news_out # NotRun /\ news_out # NewsSkipped
    /\ news_out.kind = "status" /\ news_out.code = 200
    /\ news_out.json.ok /\ IsList(news_out.json.data)

IsArticle(item, article) ==
    /\ DOMAIN item = {"title", "publisher", "link", "published_at"}
    /\ item.title = (IF "title" \in DOMAIN article THEN article.title ELSE "")
    /\ item.publisher = (IF "site" \in DOMAIN article THEN article.site ELSE "")
    /\ item.link = (IF "url" \in DOMAIN article THEN article.url ELSE "")
    /\ item.published_at =
         (IF "publishedDate" \in DOMAIN article THEN article.publishedDate ELSE "")

(* C4: whenever the sentiment collaborator returns no news items (or does  *)
(* not return), the returned news is the provider's: its first at most 5   *)
(* articles in its order, and empty when the provider fetch failed or was  *)
(* skipped.                                                                *)
C4_ProviderNewsKept ==
    (DetailsDone /\ sentiment_out # NotRun /\ ~SentimentHasNews) =>
        IF ProviderListed
        THEN LET articles == news_out.json.data.items
             IN /\ Len(stock_details.news) =
                     (IF Len(articles) < 5 THEN Len(articles) ELSE 5)
                /\ \A i \in 1..Len(stock_details.news) :
                     IsArticle(stock_details.news[i], articles[i])
        ELSE stock_details.news = <<>>

\* the provider listed more than 5 articles and the sentiment result had no news
C4_Witness ==
    /\ DetailsDone
    /\ sentiment_out # NotRun /\ sentiment_out.kind = "return" /\ ~SentimentHasNews
    /\ ProviderListed /\ Len(news_out.json.data.items) > 5
    /\ Len(stock_details.news) = 5

\* fetch_risk_results raised, or returned a result carrying an error
RiskFailed ==
    /\ risk_out # NotRun
    /\ \/ risk_out.direct.kind = "raise"
       \/ /\ risk_out.direct.kind = "return"
          /\ IsDict(risk_out.direct.value)
          /\ "error" \in DOMAIN risk_out.direct.value.d

RiskIsExactly(r) ==
    /\ "risk_analysis" \in DOMAIN stock_details
    /\ stock_details.risk_analysis = r

(* C5 as stated: whenever fetch_risk_results raises or returns a result    *)
(* carrying an error, risk_analysis is exactly the all-"N/A" record with a *)
(* null latest_close, and the prediction sub-fetch still runs.             *)
C5_RiskFailureGivesNa ==
    (DetailsDone /\ RiskFailed) =>
        /\ RiskIsExactly(NaRisk)
        /\ prediction_out # NotRun

(* C5 amended: whenever fetch_risk_results raises an exception other than  *)
(* NameError or returns a result carrying an error, risk_analysis is       *)
(* exactly the all-"N/A" record and the prediction sub-fetch still runs.   *)
(* On a NameError the risk endpoint is asked over HTTP: risk_analysis is   *)
(* the all-"N/A" record when that call fails or answers a non-ok status,   *)
(* and otherwise whatever risk_analysis the endpoint answered (with an     *)
(* error field when the endpoint's own fetch failed); the prediction       *)
(* sub-fetch runs all the same.                                            *)
C5_RiskFailureByKind ==
    (DetailsDone /\ RiskFailed) =>
        /\ prediction_out # NotRun
        /\ IF risk_out.direct # RiskNameError THEN RiskIsExactly(NaRisk)
           ELSE IF risk_out.self.kind # "served" THEN RiskIsExactly(NaRisk)
           ELSE /\ "risk_analysis" \in DOMAIN stock_details
                /\ stock_details.risk_analysis # None
                /\ {"risk_level", "volatility", "daily_return", "current_price",
                    "trend", "latest_close"} \subseteq DOMAIN stock_details.risk_analysis
                /\ ("error" \in DOMAIN stock_details.risk_analysis) <=>
                     (InError(risk_out.self.inner) # NoExc
                        \/ "error" \in DOMAIN risk_out.self.inner.value.d)
                /\ "error" \in DOMAIN stock_details.risk_analysis =>
                     [k \in DOMAIN NaRisk |-> stock_details.risk_analysis[k]] = NaRisk

\* the risk collaborator raised an ordinary exception and the prediction succeeded
C5_Witness ==
    /\ DetailsDone
    /\ risk_out # NotRun
    /\ risk_out.direct.kind = "raise" /\ risk_out.direct # RiskNameError
    /\ RiskIsExactly(NaRisk)
    /\ prediction_out # NotRun /\ prediction_out.kind = "return"
    /\ stock_details.price_prediction # None

\* the search route has answered
SearchDone == route = "search" /\ pc = "done"

\* the `name` argument is missing, empty or whitespace only
BlankQuery == \A i \in 1..Len(query) : query[i] \in {" ", "\t", "\n"}

(* C6: the search route answers a missing, empty or whitespace-only name   *)
(* with HTTP 400 and issues no outbound call for that request.             *)
C6_BlankQueryIs400NoCall ==
    (SearchDone /\ BlankQuery) =>
        /\ response.status = 400
        /\ calls = <<>>
        /\ search_out = NotRun

\* a whitespace-only query was refused on a server whose API key is configured
C6_Witness ==
    /\ SearchDone
    /\ query # <<>> /\ BlankQuery
    /\ FMP_API_KEY # ""
    /\ response.status = 400

\* the search provider was asked and failed: a transport failure or a non-200 status
ProviderFailed ==
    /\ search_out # NotRun
    /\ \/ search_out.kind = "raise"
       \/ search_out.kind = "status" /\ search_out.code # 200

ErrorDict(v) == IsDict(v) /\ "error" \in DOMAIN v.d

(* C7: for a non-empty query, every provider-side failure (401, 429, any   *)
(* other non-200 status, timeout, transport error) makes search_stocks     *)
(* return a dict with an error key instead of raising, and the route       *)
(* answers HTTP 500 with that dict; a list of matches at HTTP 200 comes    *)
(* from a 200 provider response only.                                      *)
C7_ProviderFailureIs500 ==
    (SearchDone /\ ~BlankQuery) =>
        /\ search_results # NotRun
        /\ ProviderFailed =>
             /\ search_results.exc = NoExc
             /\ ErrorDict(search_results.value)
             /\ response = Http(500, search_results.value)
        /\ response.status = 200 =>
             /\ search_out # NotRun
             /\ search_out.kind = "status" /\ search_out.code = 200
             /\ response.body = search_results.value

\* the provider answered 401 and the route answered 500 with the error dict
C7_Witness ==
    /\ SearchDone
    /\ search_out # NotRun /\ search_out.kind = "status" /\ search_out.code = 401
    /\ response.status = 500
    /\ ErrorDict(response.body)

\* the risk endpoint has answered
RiskDone == route = "risk" /\ pc = "done"

(* C8: the risk endpoint answers any non-empty symbol with HTTP 200 and a  *)
(* body {risk_analysis: ...}; when fetch_risk_results raises or returns an *)
(* error result, risk_level, volatility, daily_return, current_price and   *)
(* trend are "N/A", latest_close is null and an error message is attached. *)
C8_RiskEndpointAlways200 ==
    (RiskDone /\ symbol # "") =>
        /\ response.status = 200
        /\ DOMAIN response.body = {"risk_analysis"}
        /\ RiskFailed =>
             LET ra == response.body.risk_analysis
             IN /\ DOMAIN ra = DOMAIN NaRisk \cup {"error"}
                /\ \A k \in {"risk_level", "volatility", "daily_return",
                             "current_price", "trend"} : ra[k] = "N/A"
                /\ ra.latest_close = None
                /\ ra.error # ""

\* the collaborator raised and the endpoint answered 200 with the error attached
C8_Witness ==
    /\ RiskDone
    /\ risk_out.direct.kind = "raise"
    /\ response.status = 200
    /\ "error" \in DOMAIN response.body.risk_analysis

\* step 1 raised somewhere
MarketFailed == yf_out # NotRun /\ yf_out.fail # "none"

SentimentFailed ==
    /\ sentiment_out # NotRun
    /\ \/ sentiment_out.kind = "raise"
       \/ /\ sentiment_out.kind = "return"
          /\ ~(Truthy(sentiment_out.value) /\ IsDict(sentiment_out.value))

(* C10: whenever the sentiment collaborator raises, is unavailable, or     *)
(* returns an empty or non-dict result, the returned sentiment is          *)
(* {overall_prediction: "Neutral"}, never null.                            *)
C10_SentimentFailureIsNeutral ==
    (DetailsDone /\ SentimentFailed) =>
        /\ "sentiment" \in DOMAIN stock_details
        /\ stock_details.sentiment = NeutralSentiment

(* C11: the news of every record get_stock_details returns holds at most  *)
(* 5 items, whether it came from the news provider or from the sentiment   *)
(* collaborator, and however many items those sources answered with.       *)
C11_NewsAtMostFive ==
    DetailsDone =>
        /\ "news" \in DOMAIN stock_details
        /\ Len(stock_details.news) <= 5

====
